---- MODULE Spec2Model ----
(***************************************************************************)
(* Model of go.ltgt.net/net/http/encneg: the token matcher hasToken, the   *)
(* two response shims (connegResponseWriter, responseWithContentEncoding), *)
(* the negotiating file handler (fileHandler.ServeHTTP) and GetWriter.     *)
(* Go strings are modelled as sequences of one-character strings, so that  *)
(* strings.Index, strings.HasSuffix and filepath.Ext are computed as the   *)
(* library computes them.  Indices are 0-based as in Go.                   *)
(***************************************************************************)
EXTENDS Integers, Sequences, FiniteSets, TLC

VARIABLES
    op,        \* which entry point the current run exercises
    pc,        \* position of the run: "ready" before the call, "done" after
    tokHeader, \* hasToken: argument header
    tokToken,  \* hasToken: argument token
    tokResult, \* hasToken: returned value
    files,     \* the file system: paths of regular files
    dirs,      \* the file system: paths of directories
    urlPath,   \* r.URL.Path
    origPath,  \* r.URL.Path when ServeHTTP was called
    reqAE,     \* r.Header.Get("Accept-Encoding")
    sink,      \* the real http.ResponseWriter
    calls,     \* the delegate calls f.fs.ServeHTTP made, in order
    gw,        \* GetWriter: the returned io.Writer
    shim,      \* a response shim under the calls of a handler, with its history
    query,     \* testhandlers: the values of the query parameter read
    resp       \* testhandlers: what the wrapping handler did

vars == <<op, pc, tokHeader, tokToken, tokResult, files, dirs, urlPath,
          origPath, reqAE, sink, calls, gw, shim, query, resp>>

----------------------------------------------------------------------------
(* Bounds *)

MaxHeaderLen == 4
MaxTokenLen == 2
MaxWritten == 2

\* testhandlers.Delay: longest value of the 'delay' parameter
MaxDelayLen == 3

\* the response shims: number of calls a handler makes on its writer
MaxCalls == 4

\* testhandlers.AddHeaders: longest value of a 'header' parameter, and the
\* largest number of 'header' parameters of a request
MaxLineLen == 3
MaxLines == 2

----------------------------------------------------------------------------
(* Strings *)

Separators == {" ", "\t", ";", ","}

\* characters of the token: letters only, as in an HTTP token
TokenChars == {"g", "z"}

\* characters of the header: the letters and the four separators
HeaderChars == TokenChars \cup Separators

RECURSIVE SeqsUpTo(_, _)
SeqsUpTo(S, n) ==
    IF n = 0 THEN {<<>>}
    ELSE LET shorter == SeqsUpTo(S, n - 1)
         IN  shorter \cup {Append(s, c) : s \in shorter, c \in S}

\* s[i:j] of Go, 0-based, j exclusive
Slice(s, i, j) == SubSeq(s, i + 1, j)

\* s[i] of Go, 0-based
At(s, i) == s[i + 1]

Min(S) == CHOOSE x \in S : \A y \in S : x <= y

OccursAt(s, sub, i) ==
    /\ i >= 0
    /\ i + Len(sub) <= Len(s)
    /\ Slice(s, i, i + Len(sub)) = sub

Index(s, sub) ==
    LET hits == {i \in 0..Len(s) : OccursAt(s, sub, i)}
    IN  IF hits = {} THEN -1 ELSE Min(hits)

HasSuffix(s, suffix) ==
    /\ Len(s) >= Len(suffix)
    /\ Slice(s, Len(s) - Len(suffix), Len(s)) = suffix

isSeparator(b) == b \in Separators

\* t occurs in h at i with a boundary (start, end or separator) on both sides
DelimitedAt(h, t, i) ==
    /\ OccursAt(h, t, i)
    /\ (i = 0 \/ At(h, i - 1) \in Separators)
    /\ (i + Len(t) = Len(h) \/ At(h, i + Len(t)) \in Separators)

HasDelimited(h, t) == \E i \in 0..Len(h) : DelimitedAt(h, t, i)

\* a plausible slip: the character after the match is not checked
hasTokenNoRightCheck(header, token) ==
    LET i == Index(header, token)
    IN  /\ i >= 0
        /\ (i = 0 \/ isSeparator(At(header, i - 1)))

hasToken(header, token) ==
    LET i == Index(header, token)
    IN  /\ i >= 0
        /\ (i = 0 \/ isSeparator(At(header, i - 1)))
        /\ (i + Len(token) = Len(header) \/ isSeparator(At(header, i + Len(token))))

----------------------------------------------------------------------------
(* Status codes *)

StatusOK == 200
StatusMovedPermanently == 301
StatusNotFound == 404

----------------------------------------------------------------------------
(* http.Header: each name maps to the sequence of its values; a name with  *)
(* no value is absent.                                                     *)

HeaderNames == {"Content-Type", "Content-Encoding", "Vary", "Location"}

EmptyHeader == [k \in HeaderNames |-> <<>>]

HeaderGet(h, k) == IF h[k] = <<>> THEN "" ELSE h[k][1]

HeaderHas(h, k) == h[k] # <<>>

HeaderSet(h, k, v) == [h EXCEPT ![k] = <<v>>]

HeaderAdd(h, k, v) == [h EXCEPT ![k] = Append(@, v)]

----------------------------------------------------------------------------
(* A writer stack W: the real sink, below an optional connegResponseWriter,*)
(* below an optional responseWithContentEncoding.  W.n is the byte count   *)
(* returned by the last Write or ReadFrom.                                 *)

NoCrw == [present |-> FALSE, Suppressed |-> FALSE, wroteHeader |-> FALSE,
          header |-> EmptyHeader]

NewCrw == [present |-> TRUE, Suppressed |-> FALSE, wroteHeader |-> FALSE,
           header |-> EmptyHeader]

NoRwce == [present |-> FALSE, encoding |-> "", isConneg |-> FALSE,
           headersSent |-> FALSE]

NewRwce(encoding, isConneg) ==
    [present |-> TRUE, encoding |-> encoding, isConneg |-> isConneg,
     headersSent |-> FALSE]

\* the real http.ResponseWriter: the first status wins and takes a snapshot
\* of the header set; a Write without a status sends 200 first
\* sink.log: the calls the sink has received, in order
Received(call, code, bytes) == [call |-> call, code |-> code, bytes |-> bytes]

SinkWriteHeader(W, code) ==
    IF W.sink.status # 0
    THEN [W EXCEPT !.sink.log = Append(@, Received("WriteHeader", code, <<>>))]
    ELSE [W EXCEPT !.sink.status = code, !.sink.sent = W.sink.hdr,
                   !.sink.log = Append(@, Received("WriteHeader", code, <<>>))]

SinkWrite(W, b) ==
    [W EXCEPT !.sink.status = IF @ = 0 THEN StatusOK ELSE @,
              !.sink.sent = IF W.sink.status = 0 THEN W.sink.hdr ELSE @,
              !.sink.body = @ \o b,
              !.sink.log = Append(@, Received("Write", 0, b)),
              !.n = Len(b)]

\* the header set a Header() call returns: "real" is the sink's own set,
\* "buffer" is the private set of the connegResponseWriter
HeaderOf(W, target) == IF target = "real" THEN W.sink.hdr ELSE W.crw.header

AddOn(W, target, k, v) ==
    IF target = "real"
    THEN [W EXCEPT !.sink.hdr = HeaderAdd(@, k, v)]
    ELSE [W EXCEPT !.crw.header = HeaderAdd(@, k, v)]

SetOn(W, target, k, v) ==
    IF target = "real"
    THEN [W EXCEPT !.sink.hdr = HeaderSet(@, k, v)]
    ELSE [W EXCEPT !.crw.header = HeaderSet(@, k, v)]

(* connegResponseWriter *)

\* a plausible slip: Header() does not look at Suppressed
CrwHeaderAfterStatus(W) ==
    IF W.crw.wroteHeader THEN "real" ELSE "buffer"

CrwHeader(W) ==
    IF W.crw.wroteHeader /\ ~W.crw.Suppressed THEN "real" ELSE "buffer"

\* a plausible slip: WriteHeader does not look at wroteHeader
CrwWriteHeaderNoGuard(W, code) ==
    LET W1 == [W EXCEPT !.crw.wroteHeader = TRUE]
    IN  IF code = StatusNotFound
        THEN [W1 EXCEPT !.crw.Suppressed = TRUE]
        ELSE LET W2 == [W1 EXCEPT
                   !.sink.hdr = [k \in HeaderNames |->
                                    W1.sink.hdr[k] \o W1.crw.header[k]],
                   !.crw.header = EmptyHeader]
             IN  SinkWriteHeader(W2, code)

\* a plausible slip: h[k] = v in place of h[k] = append(h[k], v...)
CrwWriteHeaderReplace(W, code) ==
    IF W.crw.wroteHeader THEN W
    ELSE LET W1 == [W EXCEPT !.crw.wroteHeader = TRUE]
         IN  IF code = StatusNotFound
             THEN [W1 EXCEPT !.crw.Suppressed = TRUE]
             ELSE LET W2 == [W1 EXCEPT
                        !.sink.hdr = [k \in HeaderNames |->
                                         IF W1.crw.header[k] # <<>>
                                         THEN W1.crw.header[k]
                                         ELSE W1.sink.hdr[k]],
                        !.crw.header = EmptyHeader]
                  IN  SinkWriteHeader(W2, code)

CrwWriteHeader(W, code) ==
    IF W.crw.wroteHeader THEN W
    ELSE LET W1 == [W EXCEPT !.crw.wroteHeader = TRUE]
         IN  IF code = StatusNotFound
             THEN [W1 EXCEPT !.crw.Suppressed = TRUE]
             ELSE LET W2 == [W1 EXCEPT
                        !.sink.hdr = [k \in HeaderNames |->
                                         W1.sink.hdr[k] \o W1.crw.header[k]],
                        !.crw.header = EmptyHeader]
                  IN  SinkWriteHeader(W2, code)

\* a plausible slip: Write does not look at Suppressed
CrwWriteThrough(W, b) ==
    LET W1 == IF ~W.crw.wroteHeader THEN CrwWriteHeader(W, StatusOK) ELSE W
    IN  SinkWrite(W1, b)

CrwWrite(W, b) ==
    IF W.crw.Suppressed THEN [W EXCEPT !.n = Len(b)]
    ELSE LET W1 == IF ~W.crw.wroteHeader THEN CrwWriteHeader(W, StatusOK) ELSE W
         IN  SinkWrite(W1, b)

CrwReadFrom(W, src) ==
    IF W.crw.Suppressed THEN [W EXCEPT !.n = 0]
    ELSE LET W1 == IF ~W.crw.wroteHeader THEN CrwWriteHeader(W, StatusOK) ELSE W
         IN  SinkWrite(W1, src)

(* what a responseWithContentEncoding wraps: r.w *)

InnerHeader(W) == IF W.crw.present THEN CrwHeader(W) ELSE "real"

InnerWriteHeader(W, code) ==
    IF W.crw.present THEN CrwWriteHeader(W, code) ELSE SinkWriteHeader(W, code)

InnerWrite(W, b) ==
    IF W.crw.present THEN CrwWrite(W, b) ELSE SinkWrite(W, b)

InnerReadFrom(W, src) ==
    IF W.crw.present THEN CrwReadFrom(W, src) ELSE SinkWrite(W, src)

(* responseWithContentEncoding *)

RwceHeader(W) == InnerHeader(W)

\* a plausible slip: the headers are injected whatever the status code
RwceWriteHeaderAnyCode(W, code) ==
    IF W.rwce.headersSent THEN W
    ELSE LET W1 == [W EXCEPT !.rwce.headersSent = TRUE]
             W2 == IF W1.rwce.encoding # ""
                   THEN SetOn(W1, RwceHeader(W1), "Content-Encoding",
                              W1.rwce.encoding)
                   ELSE W1
             W3 == IF W2.rwce.isConneg
                   THEN SetOn(W2, RwceHeader(W2), "Vary", "Accept-Encoding")
                   ELSE W2
         IN  InnerWriteHeader(W3, code)

\* a plausible slip: the status is forwarded before the headers are set
RwceWriteHeaderForwardFirst(W, code) ==
    IF W.rwce.headersSent THEN W
    ELSE LET W1 == InnerWriteHeader([W EXCEPT !.rwce.headersSent = TRUE], code)
             W2 == IF code = StatusOK /\ W1.rwce.encoding # ""
                   THEN SetOn(W1, RwceHeader(W1), "Content-Encoding",
                              W1.rwce.encoding)
                   ELSE W1
         IN  IF code = StatusOK /\ W2.rwce.isConneg
             THEN SetOn(W2, RwceHeader(W2), "Vary", "Accept-Encoding")
             ELSE W2

\* a plausible slip: headersSent is set only where the headers are set
RwceWriteHeaderFlagOn200(W, code) ==
    IF W.rwce.headersSent THEN W
    ELSE LET W1 == [W EXCEPT !.rwce.headersSent = (code = StatusOK)]
             W2 == IF code = StatusOK /\ W1.rwce.encoding # ""
                   THEN SetOn(W1, RwceHeader(W1), "Content-Encoding",
                              W1.rwce.encoding)
                   ELSE W1
             W3 == IF code = StatusOK /\ W2.rwce.isConneg
                   THEN SetOn(W2, RwceHeader(W2), "Vary", "Accept-Encoding")
                   ELSE W2
         IN  InnerWriteHeader(W3, code)

RwceWriteHeader(W, code) ==
    IF W.rwce.headersSent THEN W
    ELSE LET W1 == [W EXCEPT !.rwce.headersSent = TRUE]
             W2 == IF code = StatusOK /\ W1.rwce.encoding # ""
                   THEN SetOn(W1, RwceHeader(W1), "Content-Encoding",
                              W1.rwce.encoding)
                   ELSE W1
             W3 == IF code = StatusOK /\ W2.rwce.isConneg
                   THEN SetOn(W2, RwceHeader(W2), "Vary", "Accept-Encoding")
                   ELSE W2
         IN  InnerWriteHeader(W3, code)

\* a plausible slip: Write forwards the bytes without the status
RwceWriteNoStatus(W, b) == InnerWrite(W, b)

RwceWrite(W, b) ==
    LET W1 == IF ~W.rwce.headersSent THEN RwceWriteHeader(W, StatusOK) ELSE W
    IN  InnerWrite(W1, b)

RwceReadFrom(W, src) ==
    LET W1 == IF ~W.rwce.headersSent THEN RwceWriteHeader(W, StatusOK) ELSE W
    IN  InnerReadFrom(W1, src)

(* the http.ResponseWriter handed to the file server: the top of the stack *)

TopHeader(W) == IF W.rwce.present THEN RwceHeader(W) ELSE InnerHeader(W)

TopWriteHeader(W, code) ==
    IF W.rwce.present THEN RwceWriteHeader(W, code) ELSE InnerWriteHeader(W, code)

TopWrite(W, b) ==
    IF W.rwce.present THEN RwceWrite(W, b) ELSE InnerWrite(W, b)

TopReadFrom(W, src) ==
    IF W.rwce.present THEN RwceReadFrom(W, src) ELSE InnerReadFrom(W, src)

----------------------------------------------------------------------------
(* Paths, extensions and MIME types *)

Slash == <<"/">>
ExtHtml == <<".", "h", "t", "m", "l">>
ExtBr == <<".", "b", "r">>
ExtGz == <<".", "g", "z">>
IndexHtml == <<"i", "n", "d", "e", "x">> \o ExtHtml
IndexPage == Slash \o IndexHtml

\* the bytes of the two encoding tokens
Bytes(encoding) ==
    IF encoding = "br" THEN <<"b", "r">>
    ELSE IF encoding = "gzip" THEN <<"g", "z", "i", "p">>
    ELSE <<>>

encodingByExtensionMap(ext) ==
    IF ext = ExtBr THEN "br" ELSE IF ext = ExtGz THEN "gzip" ELSE ""

\* filepath.Ext: the suffix from the last dot of the last path element
RECURSIVE ExtScan(_, _)
ExtScan(path, i) ==
    IF i < 0 \/ At(path, i) = "/" THEN <<>>
    ELSE IF At(path, i) = "." THEN Slice(path, i, Len(path))
    ELSE ExtScan(path, i - 1)

Ext(path) == ExtScan(path, Len(path) - 1)

\* mime.TypeByExtension: known for .html, unknown ("") for the other
\* extensions of the model and for no extension
TypeByExtension(ext) ==
    IF ext = ExtHtml THEN "text/html; charset=utf-8" ELSE ""

\* the type the file server detects from the bytes when the extension
\* tells it nothing
SniffedType == "application/octet-stream"

\* path.Clean on the paths of the model: no trailing slash but for the root
Clean(upath) ==
    IF Len(upath) > 1 /\ At(upath, Len(upath) - 1) = "/"
    THEN Slice(upath, 0, Len(upath) - 1)
    ELSE upath

\* the stored bytes of a file, different for every file
Content(name) == <<"bytes of">> \o name

NotFoundBody == <<"404 page not found">>

ListingBody == <<"<pre>">>

----------------------------------------------------------------------------
(* http.FileServer, as the handler f.fs: the calls it makes on the writer  *)
(* it is given, for the request path and the file system (F files, D       *)
(* directories).                                                           *)

localRedirect(W, newPath) ==
    TopWriteHeader(SetOn(W, TopHeader(W), "Location", newPath),
                   StatusMovedPermanently)

Error(W, body, code) ==
    LET W1 == SetOn(W, TopHeader(W), "Content-Type", "text/plain; charset=utf-8")
        W2 == TopWriteHeader(W1, code)
    IN  TopWrite(W2, body)

serveContent(W, name) ==
    LET ctype == IF TypeByExtension(Ext(name)) # ""
                 THEN TypeByExtension(Ext(name)) ELSE SniffedType
        W1 == IF ~HeaderHas(HeaderOf(W, TopHeader(W)), "Content-Type")
              THEN SetOn(W, TopHeader(W), "Content-Type", ctype)
              ELSE W
        W2 == TopWriteHeader(W1, StatusOK)
    IN  TopReadFrom(W2, Content(name))

dirList(W) ==
    TopWrite(SetOn(W, TopHeader(W), "Content-Type", "text/html; charset=utf-8"),
             ListingBody)

FsServeHTTP(W, upath, F, D) ==
    LET name == Clean(upath)
        endsInSlash == At(upath, Len(upath) - 1) = "/"
        index == (IF name = Slash THEN <<>> ELSE name) \o IndexPage
    IN  IF HasSuffix(upath, IndexPage) THEN localRedirect(W, "./")
        ELSE IF name \notin F \cup D THEN Error(W, NotFoundBody, StatusNotFound)
        ELSE IF name \in D
             THEN IF ~endsInSlash THEN localRedirect(W, "base/")
                  ELSE IF index \in F THEN serveContent(W, index)
                  ELSE dirList(W)
        ELSE IF endsInSlash THEN localRedirect(W, "../base")
        ELSE serveContent(W, name)

----------------------------------------------------------------------------
(* fileHandler.  A request state S holds the real sink, r.URL.Path, the    *)
(* delegate calls made so far and whether the handler has returned; each   *)
(* call records the path the file server saw, the route that made it, the  *)
(* shims around the sink and whether the attempt was suppressed.           *)
(* A set of one element, {e}, only names the value of e.                   *)

StackOn(snk) == [sink |-> snk, crw |-> NoCrw, rwce |-> NoRwce, n |-> 0]

NewRequest(snk, path) ==
    [sink |-> snk, urlPath |-> path, calls |-> <<>>, returned |-> FALSE]

\* f.fs.ServeHTTP(w, r), w being the top of the stack W
Delegate(S, W, route, F, D) ==
    CHOOSE S2 \in
        {[sink |-> W2.sink,
          urlPath |-> S.urlPath,
          calls |-> Append(S.calls, [path |-> S.urlPath, route |-> route,
                                     suppressed |-> W2.crw.Suppressed,
                                     deferred |-> W2.crw.present,
                                     wrapped |-> W2.rwce.present]),
          returned |-> ~W2.crw.Suppressed]
            : W2 \in {FsServeHTTP(W, S.urlPath, F, D)}} : TRUE

\* a plausible slip: the shim is always told the request is negotiated
serveCompressedFileAlwaysConneg(S, W, encoding, path, isConneg, route, F, D) ==
    LET ct == TypeByExtension(Ext(path))
    IN  IF ct # ""
        THEN Delegate(S, [SetOn(W, TopHeader(W), "Content-Type", ct)
                             EXCEPT !.rwce = NewRwce(encoding, TRUE)],
                      route, F, D)
        ELSE Delegate(S, W, route, F, D)

serveCompressedFile(S, W, encoding, path, isConneg, route, F, D) ==
    LET ct == TypeByExtension(Ext(path))
    IN  IF ct # ""
        THEN Delegate(S, [SetOn(W, TopHeader(W), "Content-Type", ct)
                             EXCEPT !.rwce = NewRwce(encoding, isConneg)],
                      route, F, D)
        ELSE Delegate(S, W, route, F, D)

\* a plausible slip: r.URL.Path is not put back after the attempt
tryServeCompressedFileNoRestore(S, ext, encoding, path, F, D) ==
    serveCompressedFile([S EXCEPT !.urlPath = path \o ext],
                        [StackOn(S.sink) EXCEPT !.crw = NewCrw],
                        encoding, path, TRUE, encoding, F, D)

\* S.returned is the value returned: !crw.Suppressed
tryServeCompressedFile(S, ext, encoding, path, F, D) ==
    CHOOSE S3 \in
        {[S2 EXCEPT !.urlPath = S.urlPath]
            : S2 \in {serveCompressedFile([S EXCEPT !.urlPath = path \o ext],
                                          [StackOn(S.sink) EXCEPT !.crw = NewCrw],
                                          encoding, path, TRUE, encoding, F, D)}}
        : TRUE

\* a plausible slip: two separate ifs, without the return in the first
tryCandidateNoReturn(S, ext, encoding, path, ae, F, D) ==
    IF hasToken(ae, Bytes(encoding))
    THEN tryServeCompressedFile(S, ext, encoding, path, F, D)
    ELSE S

\* lines 73-77: each candidate is tried when its token is accepted and no
\* earlier attempt has made the handler return
tryCandidate(S, ext, encoding, path, ae, F, D) ==
    IF ~S.returned /\ hasToken(ae, Bytes(encoding))
    THEN tryServeCompressedFile(S, ext, encoding, path, F, D)
    ELSE S

\* line 83: the request as it came, behind a responseWithContentEncoding
serveUncompressed(S, F, D) ==
    IF S.returned THEN S
    ELSE Delegate(S, [StackOn(S.sink) EXCEPT !.rwce = NewRwce("", TRUE)],
                  "plain", F, D)

negotiate(S, p, ae, F, D) ==
    CHOOSE S3 \in
        {serveUncompressed(S2, F, D)
            : S2 \in {tryCandidate(S1, ExtGz, "gzip", p, ae, F, D)
                        : S1 \in {tryCandidate(S, ExtBr, "br", p, ae, F, D)}}}
        : TRUE

ServeHTTP(S, ae, F, D) ==
    LET p == S.urlPath
        ext == Ext(p)
        encoding == encodingByExtensionMap(ext)
    IN  IF HasSuffix(p, IndexPage)
        THEN Delegate(S, StackOn(S.sink), "index", F, D)
        ELSE IF encoding # ""
        THEN serveCompressedFile(S, StackOn(S.sink), encoding,
                                 Slice(p, 0, Len(p) - Len(ext)), FALSE,
                                 "direct", F, D)
        ELSE negotiate(S, IF HasSuffix(p, Slash) THEN p \o IndexHtml ELSE p,
                       ae, F, D)

----------------------------------------------------------------------------
(* Values of the variables an entry point does not use *)

NoString == <<>>

NoSink == [hdr |-> EmptyHeader, sent |-> EmptyHeader, status |-> 0,
           body |-> <<>>, log |-> <<>>]

\* code: the status the caller passed to WriteHeader, 0 before that call
NoWriter == [kind |-> "none", wroteHeader |-> FALSE, pending |-> <<>>,
             closed |-> FALSE, input |-> <<>>, before |-> EmptyHeader,
             code |-> 0]

TokIdle ==
    /\ tokHeader = NoString
    /\ tokToken = NoString
    /\ tokResult = FALSE

NoCall == [call |-> "none", key |-> "", value |-> "", code |-> 0,
           bytes |-> <<>>]

\* W: the writer stack; sink0: the sink when the stack was built; first: the
\* first status the top of the stack was given (200 for a Write or ReadFrom
\* that came first), 0 before that; last: the last call made on the top
NoShim == [W |-> <<>>, sink0 |-> NoSink, first |-> 0, ncalls |-> 0,
           last |-> NoCall]

\* events: the calls made by the handler, in order; clock: the time spent
\* hdr: the response header; hdr0 and seen: what it was when the wrapping
\* handler and then the wrapped handler were called
NoResp == [events |-> <<>>, clock |-> 0, hdr |-> <<>>, hdr0 |-> <<>>,
           seen |-> <<>>]

OthersIdle ==
    /\ shim = NoShim
    /\ query = <<>>
    /\ resp = NoResp

FsIdle ==
    /\ files = {}
    /\ dirs = {}
    /\ urlPath = NoString
    /\ origPath = NoString
    /\ calls = <<>>

----------------------------------------------------------------------------
(* FileServer: one request after another against a fixed file system *)

DirD == <<"/", "d">>
FileHtml == <<"/", "f">> \o ExtHtml
FileNoExt == <<"/", "f">>
DirIndex == DirD \o IndexPage

\* the logical files, and the names that may have compressed siblings
FileStems == {FileHtml, FileNoExt, DirIndex}
Stems == FileStems \cup {DirD}

\* a file system: every stem has the same variants stored; /d is a directory
FilesOf(variants) ==
    {st \in FileStems : "plain" \in variants}
        \cup {st \o ExtBr : st \in {x \in Stems : "br" \in variants}}
        \cup {st \o ExtGz : st \in {x \in Stems : "gz" \in variants}}

Directories == {Slash, DirD}

\* a directory that has the name of the .gz variant of /f
VariantDir == FileNoExt \o ExtGz

\* the directories of a file system: with or without that one
DirectorySets == {Directories, Directories \cup {VariantDir}}

ReqPaths ==
    Stems \cup {st \o ExtBr : st \in Stems} \cup {st \o ExtGz : st \in Stems}
          \cup {DirD \o Slash}

AcceptBr == Bytes("br")
AcceptGzip == Bytes("gzip")
AcceptBrGzip == Bytes("br") \o <<",">> \o Bytes("gzip")
AcceptGzipBr == Bytes("gzip") \o <<",">> \o Bytes("br")
AcceptDeflate == <<"d", "e", "f", "l", "a", "t", "e">>
AcceptXGzipGzip == <<"x", "-">> \o Bytes("gzip") \o <<",">> \o Bytes("gzip")

AcceptEncodings ==
    {<<>>, AcceptBr, AcceptGzip, AcceptBrGzip, AcceptGzipBr, AcceptDeflate,
     AcceptXGzipGzip}

\* the sink as the handler receives it: nothing written, and possibly a Vary
\* value set by an outer handler
FreshSinks ==
    {[hdr |-> [EmptyHeader EXCEPT !["Vary"] = v], sent |-> EmptyHeader,
      status |-> 0, body |-> <<>>, log |-> <<>>] : v \in {<<>>, <<"Origin">>}}

InitFileServer ==
    /\ OthersIdle
    /\ op = "FileServer"
    /\ pc = "ready"
    /\ TokIdle
    /\ \E variants \in SUBSET {"plain", "br", "gz"} : \E D \in DirectorySets :
           /\ files = FilesOf(variants) \ D
           /\ dirs = D
    /\ urlPath \in ReqPaths
    /\ origPath = urlPath
    /\ reqAE \in AcceptEncodings
    /\ sink \in FreshSinks
    /\ calls = <<>>
    /\ gw = NoWriter

Request ==
    /\ op = "FileServer"
    /\ pc = "ready"
    /\ \E S \in {ServeHTTP(NewRequest(sink, urlPath), reqAE, files, dirs)} :
           /\ sink' = S.sink
           /\ urlPath' = S.urlPath
           /\ calls' = S.calls
    /\ pc' = "done"
    /\ UNCHANGED <<op, tokHeader, tokToken, tokResult, files, dirs, origPath,
                   reqAE, gw,
                   shim, query, resp>>

NextRequest ==
    /\ op = "FileServer"
    /\ pc = "done"
    /\ urlPath' \in ReqPaths
    /\ origPath' = urlPath'
    /\ reqAE' \in AcceptEncodings
    /\ sink' \in FreshSinks
    /\ calls' = <<>>
    /\ pc' = "ready"
    /\ UNCHANGED <<op, tokHeader, tokToken, tokResult, files, dirs, gw,
                   shim, query, resp>>

Next == Request \/ NextRequest

Spec == InitFileServer /\ [][Next]_vars

(* What the claims about FileServer speak of *)

Done == op = "FileServer" /\ pc = "done"

IsIndexRequest(p) == HasSuffix(p, IndexPage)

IsDirectRequest(p) ==
    ~IsIndexRequest(p) /\ encodingByExtensionMap(Ext(p)) # ""

IsNegotiated(p) ==
    ~IsIndexRequest(p) /\ encodingByExtensionMap(Ext(p)) = ""

\* the uncompressed file a negotiated request is about
Logical(p) == IF HasSuffix(p, Slash) THEN p \o IndexHtml ELSE p

\* the path of a direct request without its compression suffix
Uncompressed(p) == Slice(p, 0, Len(p) - Len(Ext(p)))

\* the token is an element of the Accept-Encoding value
Accepts(ae, encoding) == HasDelimited(ae, Bytes(encoding))

Values(h, k) == {h[k][i] : i \in 1..Len(h[k])}

VaryAdded == "Accept-Encoding" \in Values(sink.sent, "Vary")

\* the file whose bytes the claim C3 expects
Preferred(p, ae) ==
    IF Accepts(ae, "br") /\ (Logical(p) \o ExtBr) \in files
    THEN Logical(p) \o ExtBr
    ELSE IF Accepts(ae, "gzip") /\ (Logical(p) \o ExtGz) \in files
    THEN Logical(p) \o ExtGz
    ELSE Logical(p)

\* C3: for a negotiated request whose uncompressed file exists, the body is
\* that of the first candidate, .br then .gz, whose token is in
\* Accept-Encoding and whose variant file exists, and that of the
\* uncompressed file when there is none; so Brotli is served when both are
\* accepted and stored, and Gzip when only the .gz variant is stored.
C3_BodyOfFirstAcceptedVariant ==
    (Done /\ IsNegotiated(origPath) /\ Logical(origPath) \in files) =>
        sink.body = Content(Preferred(origPath, reqAE))

\* C4: a negotiated request answered with 200 has Content-Encoding equal to
\* the token of the variant whose bytes are served, none when the
\* uncompressed file is served, Vary: Accept-Encoding, and the Content-Type
\* of the uncompressed file's extension when that type is known.
C4_HeadersMatchServedVariant ==
    (Done /\ IsNegotiated(origPath) /\ sink.status = StatusOK) =>
        /\ HeaderGet(sink.sent, "Content-Encoding") =
               (IF sink.body = Content(Logical(origPath) \o ExtBr) THEN "br"
                ELSE IF sink.body = Content(Logical(origPath) \o ExtGz) THEN "gzip"
                ELSE "")
        /\ VaryAdded
        /\ TypeByExtension(Ext(Logical(origPath))) # "" =>
               HeaderGet(sink.sent, "Content-Type") =
                   TypeByExtension(Ext(Logical(origPath)))

\* C5: every response on the negotiated route carries Vary:
\* Accept-Encoding, and FileServer adds none on a direct compressed-file
\* request or on an index-redirect passthrough.
C5_VaryOnNegotiatedOnly ==
    Done => (VaryAdded <=> IsNegotiated(origPath))

\* C6: no 404 response carries a Content-Encoding header, whichever route
\* produced it and whatever Accept-Encoding was sent.
C6_NoContentEncodingOn404 ==
    (Done /\ sink.status = StatusNotFound) =>
        ~HeaderHas(sink.sent, "Content-Encoding")

\* C6 witness: a 404 reached the client after a candidate attempt was made
\* and suppressed.
C6_Witness ==
    /\ Done
    /\ sink.status = StatusNotFound
    /\ \E i \in 1..Len(calls) : calls[i].suppressed /\ calls[i].wrapped

DirectResponse(p) ==
    /\ Len(calls) = 1
    /\ calls[1].path = p
    /\ sink.status = StatusOK
    /\ HeaderGet(sink.sent, "Content-Type") = TypeByExtension(Ext(Uncompressed(p)))
    /\ HeaderGet(sink.sent, "Content-Encoding") = encodingByExtensionMap(Ext(p))
    /\ ~VaryAdded
    /\ sink.body = Content(p)

\* C7 as stated: a direct compressed-file request whose file exists is
\* delegated once with the path unchanged and answered 200 with the
\* Content-Type of the name without its compression suffix, the
\* Content-Encoding of the extension, no Vary and the stored bytes.
C7_DirectCompressedAsStated ==
    (Done /\ IsDirectRequest(origPath) /\ origPath \in files) =>
        DirectResponse(origPath)

\* C7 amended: the same, for the requests whose name without the
\* compression suffix has an extension of known MIME type.
C7_DirectCompressedKnownType ==
    (Done /\ IsDirectRequest(origPath) /\ origPath \in files
          /\ TypeByExtension(Ext(Uncompressed(origPath))) # "") =>
        DirectResponse(origPath)

\* C7 witness: a stored .br file of known logical type was asked for directly
\* by a client that sent Accept-Encoding: gzip.
C7_Witness ==
    /\ Done
    /\ origPath = FileHtml \o ExtBr
    /\ origPath \in files
    /\ reqAE = AcceptGzip
    /\ sink.status = StatusOK

\* C8: a request for a directory without trailing slash, or for a path
\* ending in /index.html, is answered 301 with an empty body, whatever the
\* Accept-Encoding and whatever files are stored next to the directory.
C8_DirectoryAlwaysRedirects ==
    (Done /\ (origPath \in dirs \/ IsIndexRequest(origPath))) =>
        (sink.status = StatusMovedPermanently /\ sink.body = <<>>)

\* C9: when ServeHTTP has returned, r.URL.Path is what it was at the call;
\* the file server saw another path only in a candidate attempt, and then
\* the logical path plus the candidate's suffix.
C9_PathRestored ==
    Done =>
        /\ urlPath = origPath
        /\ \A i \in 1..Len(calls) :
              calls[i].path =
                  (IF calls[i].route = "br" THEN Logical(origPath) \o ExtBr
                   ELSE IF calls[i].route = "gzip" THEN Logical(origPath) \o ExtGz
                   ELSE origPath)

\* C9 witness: the handler has returned after a suppressed attempt followed
\* by an attempt that was served.
C9_Witness ==
    /\ Done
    /\ Len(calls) = 2
    /\ calls[1].suppressed
    /\ ~calls[2].suppressed
    /\ calls[2].route = "gzip"

\* the status calls of a log
StatusCalls(log) == SelectSeq(log, LAMBDA c : c.call = "WriteHeader")

\* the place of a route in the order of the delegate calls
RouteRank(route) ==
    CASE route = "br" -> 1 [] route = "gzip" -> 2 [] OTHER -> 3

\* what the file server answers to a request for path on a bare sink
Alone(path) == FsServeHTTP(StackOn(NoSink), path, files, dirs).sink

\* the bytes of the Write calls of a log, in order
RECURSIVE Written(_)
Written(log) ==
    IF log = <<>> THEN <<>>
    ELSE (IF Head(log).call = "Write" THEN Head(log).bytes ELSE <<>>)
             \o Written(Tail(log))

\* C22: on the negotiated route the delegate calls are made in the order
\* .br attempt, .gz attempt, uncompressed request; the .br attempt only if
\* br is accepted, the .gz attempt only if gzip is accepted, and every call
\* but the first only if all the calls before it were suppressed.  The
\* last call is the only one that is not suppressed, whatever its status,
\* and the real sink has received the status and the body of that call
\* and nothing else: one status at most, and the bytes of that body.
C22_OneDelegateReachesSink ==
    (Done /\ IsNegotiated(origPath)) =>
        /\ Len(calls) >= 1
        /\ \A i, j \in 1..Len(calls) :
               i < j => (RouteRank(calls[i].route) < RouteRank(calls[j].route)
                         /\ calls[i].suppressed)
        /\ \A i \in 1..Len(calls) :
               /\ calls[i].route = "br" => Accepts(reqAE, "br")
               /\ calls[i].route = "gzip" => Accepts(reqAE, "gzip")
        /\ LET last == calls[Len(calls)]
           IN  /\ ~last.suppressed
               /\ sink.status = Alone(last.path).status
               /\ sink.status # StatusNotFound \/ last.route = "plain"
               /\ sink.body = Alone(last.path).body
               /\ Written(sink.log) = sink.body
               /\ Len(StatusCalls(sink.log)) <= 1

\* C22 witness: br and gzip accepted, no .br variant, and the .gz name is
\* a directory: the .br attempt was suppressed, the .gz attempt answered
\* 301 and was the last call.
C22_Witness ==
    /\ Done
    /\ origPath = FileNoExt
    /\ Len(calls) = 2
    /\ calls[1].route = "br" /\ calls[1].suppressed
    /\ calls[2].route = "gzip" /\ ~calls[2].suppressed
    /\ sink.status = StatusMovedPermanently
    /\ sink.body = <<>>

----------------------------------------------------------------------------
(* GetWriter and the writer it returns.  The writer is the sink itself     *)
(* (kind "sink") or a gzip.Writer around it (kind "gzip"): a gzip.Writer   *)
(* sends its header to the sink on the first Write and the compressed      *)
(* bytes and trailer on Close.  input is what the caller wrote so far and  *)
(* before is the sink's header set when GetWriter was called.              *)

GzipHeader == <<"gzip header">>

Deflated(b) == <<"deflate">> \o b \o <<"crc32+size">>

\* a plausible slip: Header().Set in place of Header().Add
GetWriterSet(snk, ae) ==
    [sink |-> [snk EXCEPT !.hdr = HeaderSet(@, "Vary", "Accept-Encoding")],
     gw |-> [NoWriter EXCEPT
                !.kind = IF hasToken(ae, Bytes("gzip")) THEN "gzip" ELSE "sink",
                !.before = snk.hdr]]

\* a plausible slip: the gzip stream is started when the writer is created
GetWriterEager(snk, ae) ==
    IF hasToken(ae, Bytes("gzip"))
    THEN [sink |-> SinkWrite(StackOn([snk EXCEPT
                       !.hdr = HeaderAdd(@, "Vary", "Accept-Encoding")]),
                             GzipHeader).sink,
          gw |-> [NoWriter EXCEPT !.kind = "gzip", !.wroteHeader = TRUE,
                                  !.before = snk.hdr]]
    ELSE [sink |-> [snk EXCEPT !.hdr = HeaderAdd(@, "Vary", "Accept-Encoding")],
          gw |-> [NoWriter EXCEPT !.kind = "sink", !.before = snk.hdr]]

GetWriter(snk, ae) ==
    [sink |-> [snk EXCEPT !.hdr = HeaderAdd(@, "Vary", "Accept-Encoding")],
     gw |-> [NoWriter EXCEPT
                !.kind = IF hasToken(ae, Bytes("gzip")) THEN "gzip" ELSE "sink",
                !.before = snk.hdr]]

\* gzip.Writer.Write: the header goes out first, the bytes are buffered
GzipWrite(snk, w, b) ==
    [sink |-> IF w.wroteHeader THEN snk
              ELSE SinkWrite(StackOn(snk), GzipHeader).sink,
     gw |-> [w EXCEPT !.wroteHeader = TRUE, !.pending = @ \o b,
                      !.input = @ \o b]]

\* gzip.Writer.Close: header if not yet sent, compressed bytes and trailer
GzipClose(snk, w) ==
    [sink |-> SinkWrite(StackOn(snk),
                        (IF w.wroteHeader THEN <<>> ELSE GzipHeader)
                            \o Deflated(w.pending)).sink,
     gw |-> [w EXCEPT !.wroteHeader = TRUE, !.pending = <<>>, !.closed = TRUE]]

WriterWrite(snk, w, b) ==
    IF w.kind = "gzip" THEN GzipWrite(snk, w, b)
    ELSE [sink |-> SinkWrite(StackOn(snk), b).sink,
          gw |-> [w EXCEPT !.input = @ \o b]]

Chunks == {<<"H">>, <<"W">>}

InitGetWriter ==
    /\ OthersIdle
    /\ op = "GetWriter"
    /\ pc = "ready"
    /\ TokIdle
    /\ FsIdle
    /\ reqAE \in AcceptEncodings
    /\ sink \in FreshSinks
    /\ gw = NoWriter

CallGetWriter ==
    /\ op = "GetWriter"
    /\ pc = "ready"
    /\ \E R \in {GetWriter(sink, reqAE)} :
           /\ sink' = R.sink
           /\ gw' = R.gw
    /\ pc' = "got"
    /\ UNCHANGED <<op, tokHeader, tokToken, tokResult, files, dirs, urlPath,
                   origPath, reqAE, calls,
                   shim, query, resp>>

\* the caller sets the status on the response itself, before it writes
CallerWriteHeader ==
    /\ op = "GetWriter"
    /\ pc = "got"
    /\ gw.code = 0
    /\ gw.input = <<>>
    /\ ~gw.closed
    /\ \E code \in {StatusOK, StatusNotFound} :
           /\ sink' = SinkWriteHeader(StackOn(sink), code).sink
           /\ gw' = [gw EXCEPT !.code = code]
    /\ UNCHANGED <<op, pc, tokHeader, tokToken, tokResult, files, dirs, urlPath,
                   origPath, reqAE, calls,
                   shim, query, resp>>

CallerWrite ==
    /\ op = "GetWriter"
    /\ pc = "got"
    /\ ~gw.closed
    /\ Len(gw.input) < MaxWritten
    /\ \E b \in Chunks : \E R \in {WriterWrite(sink, gw, b)} :
           /\ sink' = R.sink
           /\ gw' = R.gw
    /\ UNCHANGED <<op, pc, tokHeader, tokToken, tokResult, files, dirs, urlPath,
                   origPath, reqAE, calls,
                   shim, query, resp>>

CallerClose ==
    /\ op = "GetWriter"
    /\ pc = "got"
    /\ gw.kind = "gzip"
    /\ ~gw.closed
    /\ \E R \in {GzipClose(sink, gw)} :
           /\ sink' = R.sink
           /\ gw' = R.gw
    /\ UNCHANGED <<op, pc, tokHeader, tokToken, tokResult, files, dirs, urlPath,
                   origPath, reqAE, calls,
                   shim, query, resp>>

NextGetWriter ==
    CallGetWriter \/ CallerWriteHeader \/ CallerWrite \/ CallerClose

SpecGetWriter == InitGetWriter /\ [][NextGetWriter]_vars

GotWriter == op = "GetWriter" /\ pc = "got"

\* C10: GetWriter adds Accept-Encoding to the Vary values of the sink and
\* keeps the values already there; it returns a gzip writer around the sink
\* exactly when hasToken finds gzip in Accept-Encoding, and the sink itself
\* otherwise, so that the bytes written through it reach the sink as they
\* were written.
C10_GetWriter ==
    GotWriter =>
        /\ sink.hdr = [gw.before EXCEPT
                          !["Vary"] = gw.before["Vary"] \o <<"Accept-Encoding">>]
        /\ gw.kind = "gzip" <=> hasToken(reqAE, Bytes("gzip"))
        /\ gw.kind # "gzip" => (gw.kind = "sink" /\ sink.body = gw.input)
        /\ (gw.kind = "gzip" /\ gw.closed) =>
               sink.body = GzipHeader \o Deflated(gw.input)

\* C10 witness: the sink had a Vary value, gzip was not accepted, and the
\* caller has written two chunks through the returned writer.
C10_Witness ==
    /\ GotWriter
    /\ gw.before["Vary"] = <<"Origin">>
    /\ gw.kind = "sink"
    /\ Len(gw.input) = MaxWritten
    /\ reqAE = AcceptBr

\* C11: GetWriter does not commit the response: as long as the caller has
\* neither set a status nor written or closed the returned writer, the sink
\* has received no call, has no status and no body byte, whether the writer
\* is the gzip writer or the sink itself; and the status the caller then
\* passes to WriteHeader is the status of the response.
C11_GetWriterDoesNotCommit ==
    GotWriter =>
        /\ (gw.code = 0 /\ gw.input = <<>> /\ ~gw.closed) =>
               (sink.status = 0 /\ sink.body = <<>> /\ sink.log = <<>>)
        /\ gw.code # 0 => sink.status = gw.code

\* C11 witness: a gzip writer was returned, the caller then set 404 and
\* wrote through the writer, and the response status is 404.
C11_Witness ==
    /\ GotWriter
    /\ gw.kind = "gzip"
    /\ gw.code = StatusNotFound
    /\ gw.input # <<>>
    /\ sink.status = StatusNotFound

----------------------------------------------------------------------------
(* The response shims under the calls of a handler.  The stacks are the    *)
(* ones ServeHTTP builds; the handler mutates the header set Header()      *)
(* returns, calling Header() each time, and calls WriteHeader, Write and   *)
(* ReadFrom on the top of the stack, in any order.                         *)

ShimStacks(snk) ==
    LET crw == [StackOn(snk) EXCEPT !.crw = NewCrw]
    IN  {crw}
        \cup {[StackOn(snk) EXCEPT !.rwce = NewRwce(e, FALSE)] : e \in {"br", "gzip"}}
        \cup {[crw EXCEPT !.rwce = NewRwce(e, TRUE)] : e \in {"br", "gzip"}}
        \cup {[StackOn(snk) EXCEPT !.rwce = NewRwce("", TRUE)]}

HeaderCalls ==
    {[NoCall EXCEPT !.call = "Add", !.key = "Content-Type", !.value = v] :
         v \in {"text/html", "text/plain"}}
    \cup {[NoCall EXCEPT !.call = "Set", !.key = "Location", !.value = "/d/"]}

StatusCodes == {StatusOK, StatusMovedPermanently, StatusNotFound}

Payload == <<"b1", "b2">>

\* w.Header().Add(k, v) or w.Header().Set(k, v) on the top of the stack
TopMutate(W, m) ==
    IF m.call = "Set" THEN SetOn(W, TopHeader(W), m.key, m.value)
    ELSE AddOn(W, TopHeader(W), m.key, m.value)

InitShim ==
    /\ op = "shim"
    /\ pc = "calls"
    /\ TokIdle
    /\ FsIdle
    /\ reqAE = NoString
    /\ sink = NoSink
    /\ gw = NoWriter
    /\ query = <<>>
    /\ resp = NoResp
    /\ \E snk \in FreshSinks : \E W \in ShimStacks(snk) :
           shim = [NoShim EXCEPT !.W = W, !.sink0 = snk]

Called(W, c, status) ==
    [shim EXCEPT !.W = W, !.ncalls = @ + 1, !.last = c,
                 !.first = IF @ = 0 THEN status ELSE @]

ShimHeader ==
    /\ op = "shim"
    /\ shim.ncalls < MaxCalls
    /\ \E m \in HeaderCalls : \E W \in {TopMutate(shim.W, m)} :
           shim' = Called(W, m, 0)
    /\ UNCHANGED <<op, pc, tokHeader, tokToken, tokResult, files, dirs, urlPath,
                   origPath, reqAE, sink, calls, gw, query, resp>>

ShimWriteHeader ==
    /\ op = "shim"
    /\ shim.ncalls < MaxCalls
    /\ \E code \in StatusCodes : \E W \in {TopWriteHeader(shim.W, code)} :
           shim' = Called(W, [NoCall EXCEPT !.call = "WriteHeader", !.code = code],
                          code)
    /\ UNCHANGED <<op, pc, tokHeader, tokToken, tokResult, files, dirs, urlPath,
                   origPath, reqAE, sink, calls, gw, query, resp>>

ShimWrite ==
    /\ op = "shim"
    /\ shim.ncalls < MaxCalls
    /\ \E W \in {TopWrite(shim.W, Payload)} :
           shim' = Called(W, [NoCall EXCEPT !.call = "Write", !.bytes = Payload],
                          StatusOK)
    /\ UNCHANGED <<op, pc, tokHeader, tokToken, tokResult, files, dirs, urlPath,
                   origPath, reqAE, sink, calls, gw, query, resp>>

ShimReadFrom ==
    /\ op = "shim"
    /\ shim.ncalls < MaxCalls
    /\ \E W \in {TopReadFrom(shim.W, Payload)} :
           shim' = Called(W, [NoCall EXCEPT !.call = "ReadFrom", !.bytes = Payload],
                          StatusOK)
    /\ UNCHANGED <<op, pc, tokHeader, tokToken, tokResult, files, dirs, urlPath,
                   origPath, reqAE, sink, calls, gw, query, resp>>

NextShim == ShimHeader \/ ShimWriteHeader \/ ShimWrite \/ ShimReadFrom

SpecShim == InitShim /\ [][NextShim]_vars

OnShim == op = "shim"

OnCrw == OnShim /\ shim.W.crw.present

OnRwce == OnShim /\ shim.W.rwce.present

\* C14: when the first status given to a connegResponseWriter is 404, the
\* shim is suppressed and, whatever the calls made before and after it (on
\* the headers, WriteHeader, Write, ReadFrom), the real sink is as it was
\* when the shim was built: same header set, no call received, no status,
\* no body.
C14_SuppressedReachesNothing ==
    (OnCrw /\ shim.first = StatusNotFound) =>
        /\ shim.W.crw.Suppressed
        /\ shim.W.sink = shim.sink0
        /\ shim.W.sink.log = <<>>

\* C14 witness: a header was added, then 404 written, then another call
\* and a Write, on a shim whose sink had a Vary value.
C14_Witness ==
    /\ OnCrw
    /\ shim.first = StatusNotFound
    /\ shim.ncalls = MaxCalls
    /\ shim.last.call = "Write"
    /\ shim.W.crw.header["Content-Type"] # <<>>
    /\ shim.sink0.hdr["Vary"] # <<>>

\* the step in which a connegResponseWriter is given its first status, and
\* that status is not 404
CrwCommits ==
    /\ OnCrw
    /\ ~shim.W.crw.wroteHeader
    /\ shim'.W.crw.wroteHeader
    /\ shim'.first # StatusNotFound

\* the private buffer when that status reaches the connegResponseWriter:
\* a responseWithContentEncoding above it has set its headers for a 200
BufferAtCommit ==
    LET W == shim.W
        ce == IF W.rwce.present /\ shim'.first = StatusOK /\ W.rwce.encoding # ""
              THEN <<W.rwce.encoding>> ELSE W.crw.header["Content-Encoding"]
        vary == IF W.rwce.present /\ shim'.first = StatusOK /\ W.rwce.isConneg
                THEN <<"Accept-Encoding">> ELSE W.crw.header["Vary"]
    IN  [W.crw.header EXCEPT !["Content-Encoding"] = ce, !["Vary"] = vary]

C15_MergedAtCommit ==
    CrwCommits =>
        /\ \A k \in HeaderNames :
               shim'.W.sink.sent[k] = shim.W.sink.hdr[k] \o BufferAtCommit[k]
        /\ shim'.W.sink.status = shim'.first
        /\ shim'.W.sink.log[1] = Received("WriteHeader", shim'.first, <<>>)

C15_ForwardedOnce ==
    (OnCrw /\ shim.first \notin {0, StatusNotFound}) =>
        /\ StatusCalls(shim.W.sink.log) =
               <<Received("WriteHeader", shim.first, <<>>)>>
        /\ \A k \in HeaderNames :
               \E n \in 0..Len(shim.W.sink.sent[k]) :
                   SubSeq(shim.W.sink.sent[k], 1, n) = shim.sink0.hdr[k]

\* C15: when the first status given to a connegResponseWriter is not 404,
\* the header set the real sink sends with the status is, for every name,
\* the values the sink already held followed by the buffered values in
\* their order, nothing replaced or dropped; the status is the first call
\* the sink receives, and it receives it exactly once, with the same code,
\* whatever is called afterwards.
C15_CommitMergesThenForwards ==
    [][C15_MergedAtCommit]_vars /\ []C15_ForwardedOnce

\* C15 witness: two values of Content-Type were buffered above a sink that
\* had a Vary value; 200 was written, then another status; the sink sent
\* both lists in order and received one status.
C15_Witness ==
    /\ OnCrw
    /\ shim.first = StatusOK
    /\ shim.last = [NoCall EXCEPT !.call = "WriteHeader", !.code = StatusNotFound]
    /\ shim.W.sink.sent["Content-Type"] = <<"text/html", "text/plain">>
    /\ shim.W.sink.sent["Vary"] = <<"Origin", "Accept-Encoding">>
    /\ shim.W.sink.status = StatusOK

\* C16: once a connegResponseWriter is suppressed, a Write or a ReadFrom
\* leaves the real sink as it was and returns the full count: the length
\* of the buffer for Write, the number of bytes of the reader for ReadFrom.
C16_SuppressedReportsFullConsumption ==
    (OnCrw /\ shim.W.crw.Suppressed /\ shim.last.call \in {"Write", "ReadFrom"}) =>
        /\ shim.W.sink = shim.sink0
        /\ shim.W.n = Len(shim.last.bytes)

\* what a Set or an Add makes of a header set
Mutated(h, m) ==
    IF m.call = "Set" THEN [h EXCEPT ![m.key] = <<m.value>>]
    ELSE [h EXCEPT ![m.key] = h[m.key] \o <<m.value>>]

\* a step in which the handler mutates the header set Header() returns
HeaderStep ==
    /\ OnCrw
    /\ shim'.ncalls = shim.ncalls + 1
    /\ shim'.last.call \in {"Set", "Add"}

C17_MutationTarget ==
    HeaderStep =>
        IF shim.W.crw.wroteHeader /\ ~shim.W.crw.Suppressed
        THEN /\ shim'.W.sink.hdr = Mutated(shim.W.sink.hdr, shim'.last)
             /\ shim'.W.crw = shim.W.crw
        ELSE /\ shim'.W.crw.header = Mutated(shim.W.crw.header, shim'.last)
             /\ shim'.W.sink = shim.W.sink

C17_NothingVisibleBeforeCommit ==
    (OnCrw /\ (~shim.W.crw.wroteHeader \/ shim.W.crw.Suppressed)) =>
        shim.W.sink.hdr = shim.sink0.hdr

\* C17: the header set a connegResponseWriter hands out is its private
\* buffer before the first status or write and after a suppression, and
\* the real sink's own set after a commit that did not suppress: a
\* mutation made before the commit or after a suppression changes the
\* buffer and leaves the sink as it was, so the sink's header set is still
\* the initial one; a mutation made after such a commit changes the sink's
\* header set and not the buffer.
C17_HeaderTarget ==
    [][C17_MutationTarget]_vars /\ []C17_NothingVisibleBeforeCommit

\* C17 witness: after a commit with 301 the handler set Location, and the
\* sink's header set has it although it was not in the set sent.
C17_Witness ==
    /\ OnCrw
    /\ shim.first = StatusMovedPermanently
    /\ shim.last.call = "Set"
    /\ shim.W.sink.hdr["Location"] = <<"/d/">>
    /\ shim.W.sink.sent["Location"] = <<>>
    /\ shim.W.sink.sent["Content-Type"] # <<>>

\* the Content-Encoding and Vary values of the sink and of the buffer
Injectable(W) ==
    <<W.sink.hdr["Content-Encoding"], W.sink.hdr["Vary"],
      W.crw.header["Content-Encoding"], W.crw.header["Vary"]>>

\* these values change only in the step that gives the shim its first
\* status, and only when that status is 200
C18_InjectsOnFirst200Only ==
    (OnRwce /\ Injectable(shim'.W) # Injectable(shim.W)) =>
        /\ shim.first = 0
        /\ ~shim.W.rwce.headersSent
        /\ shim'.W.rwce.headersSent
        /\ shim'.first = StatusOK

C18_OtherStatusForwardedBare ==
    (OnRwce /\ shim.first \notin {0, StatusOK}) =>
        /\ Injectable(shim.W) = Injectable([shim.W EXCEPT !.sink = shim.sink0])
        /\ shim.W.crw.header["Content-Encoding"] = <<>>
        /\ shim.W.crw.header["Vary"] = <<>>
        /\ IF shim.W.crw.present /\ shim.first = StatusNotFound
           THEN shim.W.crw.Suppressed /\ shim.W.sink = shim.sink0
           ELSE /\ shim.W.sink.status = shim.first
                /\ StatusCalls(shim.W.sink.log) =
                       <<Received("WriteHeader", shim.first, <<>>)>>

\* C18: a responseWithContentEncoding changes Content-Encoding and Vary in
\* one step at most, the one that gives it its first status, and only when
\* that status is 200.  When its first status is another code, that code
\* is what it forwards, once, and neither header is ever added, whatever
\* is called later; when the connegResponseWriter under it is suppressed,
\* the real sink is as it was, so neither header reaches it.
C18_InjectionOnceOn200 ==
    [][C18_InjectsOnFirst200Only]_vars /\ []C18_OtherStatusForwardedBare

\* C18 witness: the first status of a shim for br on the sink was 301, a
\* 200 and a Write followed, and the sink has 301, no Content-Encoding and
\* the Vary value it had.
C18_Witness ==
    /\ OnRwce
    /\ ~shim.W.crw.present
    /\ shim.W.rwce.encoding = "br"
    /\ shim.first = StatusMovedPermanently
    /\ shim.last.call = "Write"
    /\ shim.ncalls > 2
    /\ shim.W.sink.status = StatusMovedPermanently
    /\ shim.W.sink.hdr["Content-Encoding"] = <<>>
    /\ shim.W.sink.hdr["Vary"] = <<"Origin">>
    /\ shim.W.sink.body = Payload

\* what Header().Set(k, v) leaves of the values vs when the set is the
\* sink's own, and what the commit of a buffer holding v adds to them
AfterInjection(W, vs, v) == IF W.crw.present THEN vs \o <<v>> ELSE <<v>>

\* C19: when the first status a responseWithContentEncoding is given is
\* 200, the header set sent with that status has Content-Encoding set to
\* the shim's encoding exactly when the encoding is not empty, and Vary:
\* Accept-Encoding exactly when the shim was made for a negotiated request;
\* otherwise the two headers are as the sink had them.
C19_HeadersSentWith200 ==
    (OnRwce /\ shim.first = StatusOK) =>
        LET W == shim.W
            had == shim.sink0.hdr
        IN  /\ W.sink.status = StatusOK
            /\ W.sink.sent["Content-Encoding"] =
                   IF W.rwce.encoding # ""
                   THEN AfterInjection(W, had["Content-Encoding"], W.rwce.encoding)
                   ELSE had["Content-Encoding"]
            /\ W.sink.sent["Vary"] =
                   IF W.rwce.isConneg
                   THEN AfterInjection(W, had["Vary"], "Accept-Encoding")
                   ELSE had["Vary"]

\* C19 witness: a shim with no encoding, made for a negotiated request, was
\* given its 200 by a ReadFrom; the set sent has Vary: Accept-Encoding and
\* no Content-Encoding.
C19_Witness ==
    /\ OnRwce
    /\ shim.first = StatusOK
    /\ shim.W.rwce.encoding = ""
    /\ shim.W.rwce.isConneg
    /\ shim.ncalls = 1
    /\ shim.last.call = "ReadFrom"
    /\ shim.W.sink.sent["Vary"] = <<"Accept-Encoding">>
    /\ shim.W.sink.sent["Content-Encoding"] = <<>>

\* a step in which the first status call of the stack is a Write or a
\* ReadFrom: no WriteHeader came before it
FirstWriteStep ==
    /\ OnShim
    /\ shim.first = 0
    /\ shim'.ncalls = shim.ncalls + 1
    /\ shim'.last.call \in {"Write", "ReadFrom"}

\* the stack after WriteHeader(200) and then the Write or ReadFrom c
ViaWriteHeader(W, c) ==
    IF c.call = "Write" THEN TopWrite(TopWriteHeader(W, StatusOK), c.bytes)
    ELSE TopReadFrom(TopWriteHeader(W, StatusOK), c.bytes)

C20_FirstWriteStep ==
    FirstWriteStep =>
        /\ shim'.W = ViaWriteHeader(shim.W, shim'.last)
        /\ shim'.W.sink.log = <<Received("WriteHeader", StatusOK, <<>>),
                                Received("Write", 0, shim'.last.bytes)>>
        /\ shim'.W.sink.status = StatusOK
        /\ shim'.W.sink.body = shim'.last.bytes
        /\ shim.W.crw.present =>
               \A k \in {"Content-Type", "Location"} :
                   shim'.W.sink.sent[k] = shim.W.sink.hdr[k] \o shim.W.crw.header[k]
        /\ (shim.W.rwce.present /\ shim.W.rwce.encoding # "") =>
               shim.W.rwce.encoding \in Values(shim'.W.sink.sent, "Content-Encoding")
        /\ (shim.W.rwce.present /\ shim.W.rwce.isConneg) =>
               "Accept-Encoding" \in Values(shim'.W.sink.sent, "Vary")

\* C20: on both shims a first Write or ReadFrom that no WriteHeader came
\* before leaves the stack and the real sink as WriteHeader(200) followed
\* by the same Write or ReadFrom does: the buffered headers are in the set
\* sent (deferred shim), Content-Encoding and Vary are in it (auto-header
\* shim), the sink receives the status 200 once and then the bytes.
C20_FirstWriteIsStatus200ThenWrite ==
    [][C20_FirstWriteStep]_vars

\* C20 witness: the handler buffered a Content-Type on a negotiated br
\* stack and then wrote; the sink received 200 and the bytes, with the
\* buffered and the injected headers.
C20_Witness ==
    /\ OnCrw
    /\ OnRwce
    /\ shim.ncalls = 2
    /\ shim.last.call = "Write"
    /\ shim.W.sink.sent["Content-Type"] = <<"text/html">>
    /\ shim.W.sink.sent["Content-Encoding"] = <<"br">>
    /\ shim.W.sink.status = StatusOK
    /\ shim.W.sink.body = Payload

\* a step in which WriteHeader is called on a stack that was already given
\* a status, by a WriteHeader or by a first Write or ReadFrom
LaterStatusStep ==
    /\ OnShim
    /\ shim.first # 0
    /\ shim'.ncalls = shim.ncalls + 1
    /\ shim'.last.call = "WriteHeader"

C21_LaterStatusStep ==
    LaterStatusStep =>
        /\ shim'.W.sink = shim.W.sink
        /\ shim'.W.crw = shim.W.crw
        /\ shim'.W.rwce = shim.W.rwce

\* in every step of the stack
C21_Monotonic ==
    OnShim =>
        /\ shim.W.crw.Suppressed => shim'.W.crw.Suppressed
        /\ (shim.W.crw.wroteHeader /\ ~shim.W.crw.Suppressed) =>
               (shim'.W.crw.wroteHeader /\ ~shim'.W.crw.Suppressed)
        /\ shim.W.rwce.headersSent => shim'.W.rwce.headersSent

\* C21: on both shims a WriteHeader that is not the first status call, with
\* any code, changes nothing: the real sink receives no call and keeps its
\* header set, and the shims keep the state the first call gave them.  In
\* no step does a suppressed shim become unsuppressed or a committed shim
\* suppressed.
C21_SecondWriteHeaderIsNoOp ==
    [][C21_LaterStatusStep /\ C21_Monotonic]_vars

\* C21 witness: a negotiated stack was given 404 and then 200: it is still
\* suppressed and the sink has received nothing.
C21_Witness ==
    /\ OnCrw
    /\ OnRwce
    /\ shim.first = StatusNotFound
    /\ shim.ncalls = 2
    /\ shim.last = [NoCall EXCEPT !.call = "WriteHeader", !.code = StatusOK]
    /\ shim.W.crw.Suppressed
    /\ shim.W.sink.log = <<>>

----------------------------------------------------------------------------
(* testhandlers.Delay.  Durations are counted in milliseconds; the values  *)
(* of the 'delay' parameter are made of digits, unit letters, the minus    *)
(* sign and a letter that belongs to no unit.                              *)

Digits == {"0", "1"}

DurationChars == Digits \cup {"s", "m", "-", "x"}

DigitValue(c) == IF c = "1" THEN 1 ELSE 0

\* time.ParseDuration's unitMap, in milliseconds
unitMap(u) ==
    CASE u = <<"m", "s">> -> 1
      [] u = <<"s">>      -> 1000
      [] u = <<"m">>      -> 60000
      [] OTHER            -> 0

\* the length of the longest prefix of s whose characters are (digits =
\* TRUE) or are not (digits = FALSE) digits
RECURSIVE Span(_, _)
Span(s, digits) ==
    IF s = <<>> \/ ((s[1] \in Digits) # digits) THEN 0
    ELSE 1 + Span(Tail(s), digits)

\* leadingInt: the value of a sequence of decimal digits
RECURSIVE leadingInt(_)
leadingInt(ds) ==
    IF ds = <<>> THEN 0
    ELSE 10 * leadingInt(SubSeq(ds, 1, Len(ds) - 1)) + DigitValue(ds[Len(ds)])

DurationError == [ok |-> FALSE, d |-> 0]

\* the loop of time.ParseDuration: a number, then a unit, until s is empty
RECURSIVE ParseTerms(_, _)
ParseTerms(s, d) ==
    IF s = <<>> THEN [ok |-> TRUE, d |-> d]
    ELSE IF s[1] \notin Digits THEN DurationError
    ELSE LET n == Span(s, TRUE)
             i == Span(Slice(s, n, Len(s)), FALSE)
             u == Slice(s, n, n + i)
         IN  IF i = 0 THEN DurationError            \* missing unit
             ELSE IF unitMap(u) = 0 THEN DurationError   \* unknown unit
             ELSE ParseTerms(Slice(s, n + i, Len(s)),
                             d + leadingInt(Slice(s, 0, n)) * unitMap(u))

\* time.ParseDuration: [-]("0" | (digits unit)+)
ParseDuration(orig) ==
    LET neg == orig # <<>> /\ orig[1] = "-"
        s == IF neg THEN Tail(orig) ELSE orig
    IN  IF s = <<"0">> THEN [ok |-> TRUE, d |-> 0]
        ELSE IF s = <<>> THEN DurationError
        ELSE LET r == ParseTerms(s, 0)
             IN  IF r.ok /\ neg THEN [ok |-> TRUE, d |-> 0 - r.d] ELSE r

\* url.Values.Get: the first value of the parameter, "" when it has none
QueryGet(q) == IF q = <<>> THEN <<>> ELSE q[1]

\* sleep = time.Sleep: a negative or zero duration returns at once
Sleep(R, d) ==
    [R EXCEPT !.events = Append(@, [ev |-> "sleep", arg |-> d]),
              !.clock = @ + (IF d > 0 THEN d ELSE 0)]

\* h.ServeHTTP(w, r): the wrapped handler, with the time and the response
\* header it is called with
ServeWrapped(R) ==
    [R EXCEPT !.events = Append(@, [ev |-> "handler", arg |-> R.clock]),
              !.seen = R.hdr]

\* a plausible slip: the wrapped handler is served before the pause
DelayAfterHandler(q, R) ==
    LET d == QueryGet(q)
        served == ServeWrapped(R)
    IN  IF d # <<>> /\ ParseDuration(d).ok
        THEN Sleep(served, ParseDuration(d).d)
        ELSE served

Delay(q, R) ==
    LET d == QueryGet(q)
    IN  IF d # <<>> /\ ParseDuration(d).ok
        THEN ServeWrapped(Sleep(R, ParseDuration(d).d))
        ELSE ServeWrapped(R)

DelayQueries ==
    {<<>>} \cup {<<d>> : d \in SeqsUpTo(DurationChars, MaxDelayLen)}

InitDelay ==
    /\ op = "Delay"
    /\ pc = "ready"
    /\ TokIdle
    /\ FsIdle
    /\ reqAE = NoString
    /\ sink = NoSink
    /\ gw = NoWriter
    /\ shim = NoShim
    /\ query \in DelayQueries
    /\ resp = NoResp

CallDelay ==
    /\ op = "Delay"
    /\ pc = "ready"
    /\ resp' = Delay(query, resp)
    /\ pc' = "done"
    /\ UNCHANGED <<op, tokHeader, tokToken, tokResult, files, dirs, urlPath,
                   origPath, reqAE, sink, calls, gw, shim, query>>

NextDelay == CallDelay

SpecDelay == InitDelay /\ [][NextDelay]_vars

DelayDone == op = "Delay" /\ pc = "done"

HandlerCalls == SelectSeq(resp.events, LAMBDA e : e.ev = "handler")

\* C12: Delay calls the wrapped handler exactly once for every request.
\* When the 'delay' parameter is a valid duration, sleep is called exactly
\* once, with that duration, before the wrapped handler.  When the
\* parameter is absent, empty or malformed, sleep is not called; in these
\* cases and when the duration is negative the wrapped handler is called
\* with no time spent.
C12_Delay ==
    DelayDone =>
        LET d == QueryGet(query)
            dd == ParseDuration(d)
        IN  /\ Len(HandlerCalls) = 1
            /\ (d # <<>> /\ dd.ok) =>
                   resp.events = <<[ev |-> "sleep", arg |-> dd.d],
                                   HandlerCalls[1]>>
            /\ (d = <<>> \/ ~dd.ok) =>
                   resp.events = <<[ev |-> "handler", arg |-> 0]>>
            /\ (d # <<>> /\ dd.ok /\ dd.d < 0) => HandlerCalls[1].arg = 0
            /\ (d # <<>> /\ dd.ok /\ dd.d > 0) => HandlerCalls[1].arg = dd.d

\* C12 witness: the parameter is the negative duration "-1s", sleep was
\* called with minus one second and the handler with no time spent.
C12_Witness ==
    /\ DelayDone
    /\ query = <<(<<"-", "1", "s">>)>>
    /\ resp.events = <<[ev |-> "sleep", arg |-> 0 - 1000],
                       [ev |-> "handler", arg |-> 0]>>

----------------------------------------------------------------------------
(* testhandlers.AddHeaders.  A 'header' parameter is a string of letters   *)
(* and colons; the response header maps the canonical form of a name to    *)
(* the sequence of its values.                                             *)

Colon == <<":">>

LineChars == {"a", ":"}

Lines == SeqsUpTo(LineChars, MaxLineLen)

Upper(c) == IF c = "a" THEN "A" ELSE c

\* textproto.CanonicalMIMEHeaderKey, as http.Header.Add applies it: the
\* first letter in upper case
CanonicalMIMEHeaderKey(name) ==
    IF name = <<>> THEN name ELSE <<Upper(name[1])>> \o Tail(name)

HeaderKeys == {CanonicalMIMEHeaderKey(n) : n \in SeqsUpTo({"a"}, MaxLineLen)}

\* strings.SplitN(s, ":", 2)
SplitN2(s) ==
    LET i == Index(s, Colon)
    IN  IF i < 0 THEN <<s>>
        ELSE <<Slice(s, 0, i), Slice(s, i + Len(Colon), Len(s))>>

\* a plausible slip: Header().Set in place of Header().Add
RECURSIVE AddHeadersSet(_, _)
AddHeadersSet(q, R) ==
    IF q = <<>> THEN ServeWrapped(R)
    ELSE LET hhhh == SplitN2(q[1])
             v == IF Len(hhhh) > 1 THEN hhhh[2] ELSE <<>>
         IN  AddHeadersSet(Tail(q),
                 [R EXCEPT !.hdr = HeaderSet(@, CanonicalMIMEHeaderKey(hhhh[1]), v)])

RECURSIVE AddHeaders(_, _)
AddHeaders(q, R) ==
    IF q = <<>> THEN ServeWrapped(R)
    ELSE LET hhhh == SplitN2(q[1])
             v == IF Len(hhhh) > 1 THEN hhhh[2] ELSE <<>>
         IN  AddHeaders(Tail(q),
                 [R EXCEPT !.hdr = HeaderAdd(@, CanonicalMIMEHeaderKey(hhhh[1]), v)])

HeaderQueries == SeqsUpTo(Lines, MaxLines)

NoValues == [k \in HeaderKeys |-> <<>>]

\* the response header when AddHeaders is called: empty, or with a value
ResponseHeaders == {NoValues, [NoValues EXCEPT ![<<"A">>] = <<(<<"a", "a">>)>>]}

InitAddHeaders ==
    /\ op = "AddHeaders"
    /\ pc = "ready"
    /\ TokIdle
    /\ FsIdle
    /\ reqAE = NoString
    /\ sink = NoSink
    /\ gw = NoWriter
    /\ shim = NoShim
    /\ query \in HeaderQueries
    /\ \E h \in ResponseHeaders : resp = [NoResp EXCEPT !.hdr = h, !.hdr0 = h]

CallAddHeaders ==
    /\ op = "AddHeaders"
    /\ pc = "ready"
    /\ resp' = AddHeaders(query, resp)
    /\ pc' = "done"
    /\ UNCHANGED <<op, tokHeader, tokToken, tokResult, files, dirs, urlPath,
                   origPath, reqAE, sink, calls, gw, shim, query>>

NextAddHeaders == CallAddHeaders

SpecAddHeaders == InitAddHeaders /\ [][NextAddHeaders]_vars

AddHeadersDone == op = "AddHeaders" /\ pc = "done"

\* the place of the first colon of a line, 0 when it has none
FirstColon(line) ==
    IF \E i \in 1..Len(line) : line[i] = ":"
    THEN CHOOSE i \in 1..Len(line) :
             line[i] = ":" /\ \A j \in 1..(i - 1) : line[j] # ":"
    ELSE 0

NameOf(line) ==
    IF FirstColon(line) = 0 THEN line ELSE SubSeq(line, 1, FirstColon(line) - 1)

ValueOf(line) ==
    IF FirstColon(line) = 0 THEN <<>>
    ELSE SubSeq(line, FirstColon(line) + 1, Len(line))

SameName(n, k) == CanonicalMIMEHeaderKey(n) = k

\* the values the first n parameters of q give for the header k, in order
RECURSIVE ValuesFor(_, _, _)
ValuesFor(q, k, n) ==
    IF n = 0 THEN <<>>
    ELSE ValuesFor(q, k, n - 1) \o
             (IF SameName(NameOf(q[n]), k) THEN <<ValueOf(q[n])>> ELSE <<>>)

\* C13: AddHeaders splits each 'header' parameter at its first colon into
\* a name and a value, the value being empty when there is no colon or
\* nothing after it, and appends the values to the response header of that
\* name, in the order of the parameters and after the values already
\* there.  The wrapped handler is called exactly once, after all of them
\* were added.
C13_AddHeaders ==
    AddHeadersDone =>
        /\ Len(HandlerCalls) = 1
        /\ Len(resp.events) = 1
        /\ \A k \in HeaderKeys :
               /\ resp.seen[k] = resp.hdr0[k] \o ValuesFor(query, k, Len(query))
               /\ resp.hdr[k] = resp.seen[k]

\* C13 witness: the header A had a value; the parameters "a:a", "a::" and
\* then the handler saw the three values of A in that order.
C13_Witness ==
    /\ AddHeadersDone
    /\ query = <<(<<"a", ":", "a">>), <<"a", ":", ":">>>>
    /\ resp.seen[<<"A">>] = <<(<<"a", "a">>), <<"a">>, <<":">>>>

----------------------------------------------------------------------------
(* hasToken, applied to every header and token within the bounds *)

InitHasToken ==
    /\ OthersIdle
    /\ op = "hasToken"
    /\ pc = "ready"
    /\ tokHeader \in SeqsUpTo(HeaderChars, MaxHeaderLen)
    /\ tokToken \in SeqsUpTo(TokenChars, MaxTokenLen)
    /\ tokResult = FALSE
    /\ FsIdle
    /\ reqAE = NoString
    /\ sink = NoSink
    /\ gw = NoWriter

CallHasToken ==
    /\ op = "hasToken"
    /\ pc = "ready"
    /\ tokResult' = hasToken(tokHeader, tokToken)
    /\ pc' = "done"
    /\ UNCHANGED <<op, tokHeader, tokToken, files, dirs, urlPath, origPath,
                   reqAE, sink, calls, gw,
                   shim, query, resp>>

NextHasToken == CallHasToken

SpecHasToken == InitHasToken /\ [][NextHasToken]_vars

HasTokenDone == op = "hasToken" /\ pc = "done"

\* C1: for every header h and non-empty token t, hasToken(h, t) is true if
\* and only if t occurs somewhere in h with start-of-string or a separator
\* before it and end-of-string or a separator after it.
C1_TrueIffDelimitedSomewhere ==
    (HasTokenDone /\ tokToken # <<>>) =>
        (tokResult <=> HasDelimited(tokHeader, tokToken))

\* C2: for every header h and non-empty token t, when every occurrence of t
\* in h has a non-separator character right before or right after it,
\* hasToken(h, t) is false; and hasToken of the empty header is false.
C2_NoEmbeddedMatch ==
    (HasTokenDone /\ tokToken # <<>> /\ ~HasDelimited(tokHeader, tokToken)) =>
        tokResult = FALSE

\* C2 witness: the token occurs in the header, only embedded, and the call
\* has returned false.
C2_Witness ==
    /\ HasTokenDone
    /\ tokToken # <<>>
    /\ Index(tokHeader, tokToken) >= 0
    /\ ~HasDelimited(tokHeader, tokToken)
    /\ tokResult = FALSE

====
